---- MODULE Spec2Model ----
(***************************************************************************)
(* The airline booking API: the booking / cancellation flow                *)
(* (app/routers/bookings.py) over the FlightInventory, Bookings and        *)
(* Passengers tables, registration, login and token verification           *)
(* (app/routers/users.py, app/dependencies.py) over the Users table, and   *)
(* the flight catalogue (app/routers/flights.py, airports.py).             *)
(*                                                                         *)
(* Every HTTP request is served by one worker with its own SQLAlchemy      *)
(* session (app/database.py get_db).  A session is a transaction: rows it  *)
(* flushes stay invisible to the other sessions until commit, rollback     *)
(* discards them, and a row selected with_for_update stays exclusively     *)
(* locked until the session commits or rolls back.                         *)
(***************************************************************************)
EXTENDS Integers, Naturals, Sequences, FiniteSets, TLC

\* ---------------------------------------------------------------- bounds
NumProcs == 2          \* concurrent request workers
NumUsers == 2          \* registered users
NumInventory == 2      \* FlightInventory rows
MaxTotalSeats == 2     \* TotalSeats of the first row (the others hold 1)
MaxPassengers == 2     \* passengers in one request body
NumPassports == 3      \* distinct passport numbers
MaxBookingID == 2      \* Booking rows ever inserted
NumEmails == 2         \* distinct e-mail addresses
MaxUserID == 2         \* User rows ever inserted by register_user
MaxClock == 2          \* ticks of the wall clock
NumDays == 2           \* departure dates

Procs == 1..NumProcs
Users == 1..NumUsers
InvIDs == 1..NumInventory
\* an InventoryID no row has, for the not-found path
MissingInventoryID == NumInventory + 1
InvInputs == InvIDs \cup {MissingInventoryID}
Passports == 1..NumPassports

\* no lock holder / no session
NoProc == 0
\* no row
NoRow == 0

\* ---------------------------------------------------------------- strings
\* PNR codes as stored: str(uuid.uuid4()).upper()[:6] is upper case
PnrCodes == {"A1", "B2"}
\* PNRs as a client may type them into the URL
PnrInputs == PnrCodes \cup {"a1"}

\* str.upper() over the strings the requests carry
Upper(s) ==
  CASE s = "a1" -> "A1"
    [] s = "jfk" -> "JFK"
    [] s = "lhr" -> "LHR"
    [] OTHER -> s

SeatLetters == <<"A", "B", "C", "D", "E", "F">>

\* gen_seat_label: f"{row}{letter}" as the pair (row, letter)
gen_seat_label(index) ==
  [row |-> (index \div 6) + 1, letter |-> SeatLetters[(index % 6) + 1]]

\* ---------------------------------------------------------------- requests
\* one PassengerBase of the request body: the class it names.  Its
\* PassportNumber is drawn where the handler reads it, at the insert.
PassengerInputs == [InventoryID : InvInputs]
\* BookingCreate.passengers: a list, possibly empty
BookingInputs == UNION {[1..n -> PassengerInputs] : n \in 0..MaxPassengers}

\* the HTTP response a step sends: handler, caller and outcome
Resp(handler, u, code, text) ==
  [handler |-> handler, user |-> u, status |-> code, detail |-> text]

NoResponse == Resp("none", NoRow, 0, "none")

VARIABLES
  inventory,      \* FlightInventory rows, committed: InventoryID -> row
  lock,           \* InventoryID -> session holding the row's exclusive lock
  bookings,       \* Booking rows; txn = session of an uncommitted insert
  passengers,     \* Passenger rows (committed)
  nextBookingID,  \* identity counter of Bookings.BookingID
  pc,             \* position of each worker in its handler
  current_user,   \* UserID resolved by get_current_user
  booking_in,     \* create_booking: the request body's passengers
  pnr,            \* cancel_booking: the pnr path parameter as received
  inventory_item, \* the session's FlightInventory object (as read)
  booking,        \* the session's Booking object: its BookingID
  response,       \* the HTTP response sent by the latest step, if any
  returned,       \* IDs of the rows in that response's body
  users,          \* User rows (committed)
  nextUserID,     \* identity counter of Users.UserID
  user_data,      \* register_user: the request body as received
  env,            \* the process environment (os.getenv)
  now,            \* the wall clock (datetime.utcnow)
  access_token,   \* the token the latest successful login returned
  token,          \* the bearer token of the request just answered
  temp_token,     \* the temp_token query parameter of that request
  flights,        \* Flight rows (committed)
  airports,       \* Airport rows (committed)
  query           \* the query parameters of the search just answered

\* the Users table, the environment and what the clients hold
accounts == <<users, nextUserID, user_data, env, now, access_token, token,
              temp_token>>

\* the flight catalogue
catalogue == <<flights, airports, query>>

\* what the booking flow works on
reservations == <<inventory, lock, bookings, passengers, nextBookingID,
                  current_user, booking_in, pnr, inventory_item, booking>>

vars == <<inventory, lock, bookings, passengers, nextBookingID, pc,
          current_user, booking_in, pnr, inventory_item, booking, response,
          returned, accounts, catalogue>>

NoItem == [InventoryID |-> NoRow, TotalSeats |-> 0, SeatsBooked |-> 0]

\* ---------------------------------------------------------------- tables
\* TotalSeats of the seeded rows (schemas.InventoryBase: TotalSeats > 0)
SeedTotalSeats(i) == IF i = 1 THEN MaxTotalSeats ELSE 1

\* a FlightInventory row with the column default SeatsBooked = 0
FlightInventory(i, total) ==
  [FlightID |-> 1, BaseFare |-> 100 * i, TotalSeats |-> total,
   SeatsBooked |-> 0]

\* rows the other sessions can see
Committed(rows) == {b \in rows : b.txn = NoProc}

\* Booking.passengers relationship
PassengersOf(id) == {q \in passengers : q.BookingID = id}

\* ---------------------------------------------------------------- session
\* a select without with_for_update: never waits
CanLockUnlocked(p, i) == TRUE

\* Query.with_for_update(): the row lock is granted when no other session
\* holds it
CanLock(p, i) == lock[i] = NoProc \/ lock[i] = p

\* the session's row locks outlive the transaction
ReleaseLocksNever(p) == lock

\* locks of a session end with its transaction
ReleaseLocks(p) == [i \in InvIDs |-> IF lock[i] = p THEN NoProc ELSE lock[i]]

\* the rows flushed by a failed request are kept
RollbackBookingsKept(p) ==
  {IF b.txn = p THEN [b EXCEPT !.txn = NoProc] ELSE b : b \in bookings}

\* db.rollback(): the session's uncommitted rows are discarded
RollbackBookings(p) == {b \in bookings : b.txn # p}

\* db.commit(): the session's uncommitted rows become visible
CommitBookings(p) ==
  {IF b.txn = p THEN [b EXCEPT !.txn = NoProc] ELSE b : b \in bookings}

\* a step of the booking flow, which answers nothing yet; the booking
\* handlers touch neither the Users table nor the catalogue
Silent ==
  /\ response' = NoResponse
  /\ returned' = {}
  /\ UNCHANGED <<accounts, catalogue>>

\* the request is answered: its body and the session's objects are gone
CloseSession(p, handler, code, text, rows) ==
  /\ response' = Resp(handler, current_user[p], code, text)
  /\ returned' = rows
  /\ UNCHANGED <<accounts, catalogue>>
  /\ pc' = [pc EXCEPT ![p] = "idle"]
  /\ lock' = ReleaseLocks(p)
  /\ current_user' = [current_user EXCEPT ![p] = NoRow]
  /\ booking_in' = [booking_in EXCEPT ![p] = <<>>]
  /\ pnr' = [pnr EXCEPT ![p] = ""]
  /\ inventory_item' = [inventory_item EXCEPT ![p] = NoItem]
  /\ booking' = [booking EXCEPT ![p] = NoRow]

\* except-branch of both handlers: rollback, then the error response
Fail(p, handler, code, text) ==
  /\ bookings' = RollbackBookings(p)
  /\ CloseSession(p, handler, code, text, {})
  /\ UNCHANGED <<inventory, passengers>>

\* a worker takes a request; get_current_user has resolved the caller
Receive(p, handler, u) ==
  /\ pc[p] = "idle"
  /\ pc' = [pc EXCEPT ![p] = handler]
  /\ current_user' = [current_user EXCEPT ![p] = u]
  /\ Silent
  /\ UNCHANGED <<inventory, lock, bookings, passengers, nextBookingID,
                 inventory_item, booking>>

\* ---------------------------------------------------------------- create_booking
\* inventory_ids = {p.InventoryID for p in booking_in.passengers}
inventory_ids(body) == {body[k].InventoryID : k \in 1..Len(body)}

\* len(inventory_ids) > 2
MixedClassesOffByOne(body) == Cardinality(inventory_ids(body)) > 2

\* len(inventory_ids) > 1
MixedClasses(body) == Cardinality(inventory_ids(body)) > 1

\* available_seats <= num_passengers
CapacityFailsOffByOne(available_seats, num_passengers) ==
  available_seats <= num_passengers

\* available_seats < num_passengers
CapacityFails(available_seats, num_passengers) ==
  available_seats < num_passengers

\* the check of the request in flight, on the row as the session read it
NoSeats(p) ==
  CapacityFails(inventory_item[p].TotalSeats - inventory_item[p].SeatsBooked,
                Len(booking_in[p]))

\* the two status arguments swapped
NewBookingSwapped(p, id, code) ==
  [BookingID |-> id, PNR |-> code, UserID |-> current_user[p],
   FlightID |-> inventory[inventory_item[p].InventoryID].FlightID,
   TotalAmount |-> inventory[inventory_item[p].InventoryID].BaseFare
                     * Len(booking_in[p]),
   BookingStatus |-> "Pending", PaymentStatus |-> "Confirmed", txn |-> p]

\* models.Booking(...) as create_booking builds it
NewBooking(p, id, code) ==
  [BookingID |-> id, PNR |-> code, UserID |-> current_user[p],
   FlightID |-> inventory[inventory_item[p].InventoryID].FlightID,
   TotalAmount |-> inventory[inventory_item[p].InventoryID].BaseFare
                     * Len(booking_in[p]),
   BookingStatus |-> "Confirmed", PaymentStatus |-> "Pending", txn |-> p]

\* models.Passenger(...) rows of the request, seats from SeatsBooked + i
NewPassengers(p, passports) ==
  {[BookingID |-> booking[p],
    InventoryID |-> booking_in[p][k].InventoryID,
    PassportNumber |-> passports[k],
    SeatNumber |-> gen_seat_label(inventory_item[p].SeatsBooked + (k - 1))]
   : k \in 1..Len(booking_in[p])}

\* Passenger.PassportNumber is unique
PassportConflict(passports) ==
  \/ \E k1, k2 \in DOMAIN passports :
       k1 # k2 /\ passports[k1] = passports[k2]
  \/ \E k \in DOMAIN passports : \E q \in passengers :
       q.PassportNumber = passports[k]

\* Passport numbers nobody holds are interchangeable: a request whose
\* numbers are all new carries the least unused ones, in order.
UnusedPassports == {k \in Passports : \A q \in passengers : q.PassportNumber # k}

NewPassports(n) ==
  {s \in [1..n -> UnusedPassports] :
     \A k \in 1..n : Cardinality({j \in UnusedPassports : j < s[k]}) = k - 1}

PassportInputs(n) ==
  NewPassports(n) \cup {s \in [1..n -> Passports] : PassportConflict(s)}

\* str(uuid.uuid4()).upper()[:6]: a code some Booking row holds already, or
\* a new one; new codes are interchangeable and come out least first
PnrOrder == <<"A1", "B2", "C3">>

NewPnrs ==
  {PnrOrder[k] : k \in {k \in DOMAIN PnrOrder :
     /\ \A b \in bookings : b.PNR # PnrOrder[k]
     /\ \A j \in 1..(k - 1) : \E b \in bookings : b.PNR = PnrOrder[j]}}

\* create requests that have not yet drawn their BookingID
Unflushed == {q \in Procs : pc[q] \in {"create_booking", "checking"}}

\* POST /bookings arrives with its body
CreateBookingReceive(p) ==
  \E u \in Users, body \in BookingInputs :
    /\ nextBookingID + Cardinality(Unflushed) <= MaxBookingID
    /\ Receive(p, "create_booking", u)
    /\ booking_in' = [booking_in EXCEPT ![p] = body]
    /\ pnr' = pnr

\* the passengers name more than one InventoryID: 400 before the try block
CreateBookingMixed(p) ==
  /\ pc[p] = "create_booking"
  /\ MixedClasses(booking_in[p])
  /\ CloseSession(p, "create_booking", 400, "same flight/class", {})
  /\ UNCHANGED <<inventory, bookings, passengers, nextBookingID>>

\* booking_in.passengers[0] on an empty list: IndexError inside the try
CreateBookingEmpty(p) ==
  /\ pc[p] = "create_booking"
  /\ ~MixedClasses(booking_in[p])
  /\ booking_in[p] = <<>>
  /\ Fail(p, "create_booking", 500, "Booking failed: list index")
  /\ nextBookingID' = nextBookingID

\* the select finds no row: 404
CreateBookingNoInventory(p) ==
  /\ pc[p] = "create_booking"
  /\ ~MixedClasses(booking_in[p])
  /\ booking_in[p] # <<>>
  /\ booking_in[p][1].InventoryID \notin InvIDs
  /\ Fail(p, "create_booking", 404, "inventory not found")
  /\ nextBookingID' = nextBookingID

\* select ... with_for_update: waits for the row lock, then reads the row
CreateBookingLock(p) ==
  /\ pc[p] = "create_booking"
  /\ ~MixedClasses(booking_in[p])
  /\ booking_in[p] # <<>>
  /\ LET inventory_id == booking_in[p][1].InventoryID IN
       /\ inventory_id \in InvIDs
       /\ CanLock(p, inventory_id)
       /\ lock' = [lock EXCEPT ![inventory_id] = p]
       /\ inventory_item' = [inventory_item EXCEPT ![p] =
            [InventoryID |-> inventory_id,
             TotalSeats |-> inventory[inventory_id].TotalSeats,
             SeatsBooked |-> inventory[inventory_id].SeatsBooked]]
  /\ pc' = [pc EXCEPT ![p] = "checking"]
  /\ Silent
  /\ UNCHANGED <<inventory, bookings, passengers, nextBookingID,
                 current_user, booking_in, pnr, booking>>

\* the capacity check on the row as read fails: 400
CreateBookingNoSeats(p) ==
  /\ pc[p] = "checking"
  /\ NoSeats(p)
  /\ Fail(p, "create_booking", 400, "seats left")
  /\ nextBookingID' = nextBookingID

\* the capacity check passes; db.add(new_booking); db.flush(): the insert,
\* with a fresh PNR.  A PNR held by another session's uncommitted row makes
\* the insert wait.
CreateBookingFlush(p) ==
  /\ pc[p] = "checking"
  /\ ~NoSeats(p)
  /\ \E code \in NewPnrs :
       /\ bookings' = bookings \cup {NewBooking(p, nextBookingID, code)}
  /\ booking' = [booking EXCEPT ![p] = nextBookingID]
  /\ nextBookingID' = nextBookingID + 1
  /\ pc' = [pc EXCEPT ![p] = "committing"]
  /\ Silent
  /\ UNCHANGED <<inventory, lock, passengers, current_user, booking_in, pnr,
                 inventory_item>>

\* the insert hits the unique index on Bookings.PNR: IntegrityError, 500
CreateBookingPnrCollision(p) ==
  /\ pc[p] = "checking"
  /\ ~NoSeats(p)
  /\ \E code \in PnrCodes : \E b \in Committed(bookings) : b.PNR = code
  /\ nextBookingID' = nextBookingID + 1
  /\ Fail(p, "create_booking", 500, "Booking failed: duplicate PNR")

\* passengers added, SeatsBooked += n, db.commit()
CreateBookingCommit(p) ==
  /\ pc[p] = "committing"
  /\ \E passports \in PassportInputs(Len(booking_in[p])) :
       /\ ~PassportConflict(passports)
       /\ passengers' = passengers \cup NewPassengers(p, passports)
  /\ inventory' = [inventory EXCEPT
       ![inventory_item[p].InventoryID].SeatsBooked =
          inventory_item[p].SeatsBooked + Len(booking_in[p])]
  /\ bookings' = CommitBookings(p)
  /\ CloseSession(p, "create_booking", 200, "ok", {booking[p]})
  /\ nextBookingID' = nextBookingID

\* the flush at commit hits the unique index on Passengers.PassportNumber
CreateBookingPassportCollision(p) ==
  /\ pc[p] = "committing"
  /\ \E passports \in PassportInputs(Len(booking_in[p])) :
       PassportConflict(passports)
  /\ Fail(p, "create_booking", 500, "Booking failed: duplicate PassportNumber")
  /\ nextBookingID' = nextBookingID

\* db.commit() raises (connection lost, timeout, ...)
CreateBookingCommitError(p) ==
  /\ pc[p] = "committing"
  /\ Fail(p, "create_booking", 500, "Booking failed: commit")
  /\ nextBookingID' = nextBookingID

\* ---------------------------------------------------------------- cancel_booking
\* the filter on the PNR alone
OwnBookingsAnyUser(code, u) ==
  {b \in Committed(bookings) : b.PNR = Upper(code)}

\* Booking.PNR == pnr.upper(), Booking.UserID == current_user.UserID
OwnBookings(code, u) ==
  {b \in Committed(bookings) : b.PNR = Upper(code) /\ b.UserID = u}

\* the guard left out
AlreadyCancelledNever(b) == FALSE

\* booking.BookingStatus == "Cancelled"
AlreadyCancelled(b) == b.BookingStatus = "Cancelled"

\* booking.BookingStatus = "Cancelled"
SetCancelled(b) == [b EXCEPT !.BookingStatus = "Cancelled"]

\* PUT /bookings/{pnr}/cancel arrives
CancelBookingReceive(p) ==
  \E u \in Users, code \in PnrInputs :
    /\ Receive(p, "cancel_booking", u)
    /\ pnr' = [pnr EXCEPT ![p] = code]
    /\ booking_in' = booking_in

\* no booking with this PNR belongs to the caller: 404
CancelBookingNotFound(p) ==
  /\ pc[p] = "cancel_booking"
  /\ OwnBookings(pnr[p], current_user[p]) = {}
  /\ Fail(p, "cancel_booking", 404, "booking not found")
  /\ nextBookingID' = nextBookingID

\* the booking read is already Cancelled: 400
CancelBookingAlready(p) ==
  /\ pc[p] = "cancel_booking"
  /\ \E b \in OwnBookings(pnr[p], current_user[p]) : AlreadyCancelled(b)
  /\ Fail(p, "cancel_booking", 400, "already cancelled")
  /\ nextBookingID' = nextBookingID

\* the booking read is the caller's and Confirmed; its passengers are loaded
CancelBookingFetch(p) ==
  /\ pc[p] = "cancel_booking"
  /\ \E b \in OwnBookings(pnr[p], current_user[p]) :
       /\ ~AlreadyCancelled(b)
       /\ booking' = [booking EXCEPT ![p] = b.BookingID]
       /\ pc' = [pc EXCEPT ![p] =
            IF Cardinality(PassengersOf(b.BookingID)) > 0
            THEN "cancel_locking" ELSE "cancel_committing"]
  /\ Silent
  /\ UNCHANGED <<inventory, lock, bookings, passengers, nextBookingID,
                 current_user, booking_in, pnr, inventory_item>>

\* select ... with_for_update of the passengers' inventory row
CancelBookingLock(p) ==
  /\ pc[p] = "cancel_locking"
  /\ \E q \in PassengersOf(booking[p]) :
       /\ CanLock(p, q.InventoryID)
       /\ lock' = [lock EXCEPT ![q.InventoryID] = p]
       /\ inventory_item' = [inventory_item EXCEPT ![p] =
            [InventoryID |-> q.InventoryID,
             TotalSeats |-> inventory[q.InventoryID].TotalSeats,
             SeatsBooked |-> inventory[q.InventoryID].SeatsBooked]]
  /\ pc' = [pc EXCEPT ![p] = "cancel_committing"]
  /\ Silent
  /\ UNCHANGED <<inventory, bookings, passengers, nextBookingID,
                 current_user, booking_in, pnr, booking>>

\* SeatsBooked -= num_passengers, BookingStatus = "Cancelled", db.commit()
CancelBookingCommit(p) ==
  /\ pc[p] = "cancel_committing"
  /\ LET num_passengers == Cardinality(PassengersOf(booking[p])) IN
       inventory' =
         IF inventory_item[p] = NoItem THEN inventory
         ELSE [inventory EXCEPT
                 ![inventory_item[p].InventoryID].SeatsBooked =
                    inventory_item[p].SeatsBooked - num_passengers]
  /\ bookings' = {IF b.BookingID = booking[p] THEN SetCancelled(b) ELSE b
                  : b \in bookings}
  /\ CloseSession(p, "cancel_booking", 200, "ok", {booking[p]})
  /\ UNCHANGED <<passengers, nextBookingID>>

\* db.commit() raises: rollback, 500
CancelBookingCommitError(p) ==
  /\ pc[p] = "cancel_committing"
  /\ Fail(p, "cancel_booking", 500, "Cancellation failed: commit")
  /\ nextBookingID' = nextBookingID

\* ---------------------------------------------------------------- reads
\* GET /bookings/me: filter(Booking.UserID == current_user.UserID).all()
MyBookings(u) == {b \in Committed(bookings) : b.UserID = u}

get_my_bookings(p) ==
  \E u \in Users :
    /\ pc[p] = "idle"
    /\ response' = Resp("get_my_bookings", u, 200, "ok")
    /\ returned' = {b.BookingID : b \in MyBookings(u)}
    /\ UNCHANGED <<reservations, pc, accounts, catalogue>>

\* GET /bookings/{pnr}: the caller's booking with this PNR, or 404
get_booking_by_pnr(p) ==
  \E u \in Users, code \in PnrInputs :
    /\ pc[p] = "idle"
    /\ response' =
         IF OwnBookings(code, u) = {}
         THEN Resp("get_booking_by_pnr", u, 404, "booking not found")
         ELSE Resp("get_booking_by_pnr", u, 200, "ok")
    /\ returned' = {b.BookingID : b \in OwnBookings(code, u)}
    /\ UNCHANGED <<reservations, pc, accounts, catalogue>>

\* ---------------------------------------------------------------- accounts
\* Python's None
None == "None"

EmailOrder == <<"a@x", "b@x", "c@x", "d@x">>
Emails == {EmailOrder[k] : k \in 1..NumEmails}
Passwords == {"pw1", "pw2"}

\* pwd_context.hash / pwd_context.verify
get_password_hash(password) == <<"bcrypt", password>>

verify_password(plain_password, hashed_password) ==
  hashed_password = <<"bcrypt", plain_password>>

\* models.User(...): a row with the mapped columns; IsAdmin is not one
User(id, email, password) ==
  [UserID |-> id, Email |-> email,
   HashedPassword |-> get_password_hash(password),
   FirstName |-> "F", LastName |-> "L", PhoneNumber |-> None,
   DateOfBirth |-> None, CreatedDate |-> 0]

\* schemas.UserRead: the fields of the response model, all required
UserRead ==
  {"UserID", "Email", "FirstName", "LastName", "CreatedDate", "IsAdmin"}

\* response_model with from_attributes: every required field is read off
\* the returned object; a missing attribute fails the response validation
\* and the framework answers 500
Serializes(row, response_model) == response_model \subseteq DOMAIN row

\* db.query(models.User).filter(models.User.Email == email)
UsersByEmail(email) == {u \in users : u.Email = email}

\* os.getenv(name, default)
getenv(name, default) == IF env[name] = None THEN default ELSE env[name]

\* the environments a deployment may run in
Envs == [SECRET_KEY : {None, "k1"}, HS256 : {None, "HS256"}]

\* users.py: SECRET_KEY, ALGORITHM, ACCESS_TOKEN_EXPIRE_MINUTES (one tick)
users_SECRET_KEY == getenv("SECRET_KEY", "a-very-secret-string-12345")
users_ALGORITHM == "HS256"
users_ACCESS_TOKEN_EXPIRE_MINUTES == 1

\* dependencies.py: SECRET_KEY, ALGORITHM
SECRET_KEY == getenv("SECRET_KEY", None)
ALGORITHM == getenv("HS256", None)

\* a JWT: its claims, the key that signed it and the alg of its header
NoToken == [sub |-> None, exp |-> 0, key |-> None, alg |-> None]

\* jwt.encode(claims, key, algorithm)
jwt_encode(sub, exp, key, algorithm) ==
  [sub |-> sub, exp |-> exp, key |-> key, alg |-> algorithm]

\* jwt.decode(token, key, algorithms): JWTError unless the header's alg is
\* allowed, the signature verifies under key and exp has not passed
jwt_decode(t, key, algorithms) ==
  IF /\ t.alg \in algorithms
     /\ key # None
     /\ t.key = key
     /\ t.exp >= now
  THEN [JWTError |-> FALSE, sub |-> t.sub]
  ELSE [JWTError |-> TRUE, sub |-> None]

\* create_access_token(data={"sub": email})
create_access_token(email) ==
  jwt_encode(email, now + users_ACCESS_TOKEN_EXPIRE_MINUTES,
             users_SECRET_KEY, users_ALGORITHM)

\* the bearer tokens a request may carry
TokenInputs ==
  [sub : Emails \cup {None}, exp : 0..(MaxClock + 1),
   key : {users_SECRET_KEY, "forged"}, alg : {"HS256"}]

\* the request carries no temp_token
NoTempToken == <<"(absent)">>

\* an accounts step that answers nothing
Quiet ==
  /\ response' = NoResponse
  /\ returned' = {}
  /\ token' = NoToken
  /\ temp_token' = NoTempToken
  /\ UNCHANGED <<reservations, catalogue>>

\* an accounts request is answered
Answer(handler, u, code, text, rows, bearer, temp) ==
  /\ response' = Resp(handler, u, code, text)
  /\ returned' = rows
  /\ token' = bearer
  /\ temp_token' = temp
  /\ UNCHANGED <<reservations, catalogue>>

\* register requests that have not yet drawn their UserID
Unregistered == {q \in Procs : pc[q] \in {"register_user", "registering"}}

\* POST /users/register arrives with its body
RegisterReceive(p) ==
  \E email \in Emails, password \in Passwords :
    /\ pc[p] = "idle"
    /\ nextUserID + Cardinality(Unregistered) <= MaxUserID
    /\ pc' = [pc EXCEPT ![p] = "register_user"]
    /\ user_data' = [user_data EXCEPT ![p] =
         [Email |-> email, Password |-> password]]
    /\ Quiet
    /\ UNCHANGED <<users, nextUserID, env, now, access_token>>

\* the e-mail has a row: 400
RegisterDuplicate(p) ==
  /\ pc[p] = "register_user"
  /\ UsersByEmail(user_data[p].Email) # {}
  /\ pc' = [pc EXCEPT ![p] = "idle"]
  /\ user_data' = [user_data EXCEPT ![p] = [Email |-> None, Password |-> None]]
  /\ Answer("register_user", NoRow, 400, "Email already registered", {},
            NoToken, NoTempToken)
  /\ UNCHANGED <<users, nextUserID, env, now, access_token>>

\* the e-mail has no row: the handler goes on to hash the password
RegisterCheck(p) ==
  /\ pc[p] = "register_user"
  /\ UsersByEmail(user_data[p].Email) = {}
  /\ pc' = [pc EXCEPT ![p] = "registering"]
  /\ Quiet
  /\ UNCHANGED <<users, nextUserID, user_data, env, now, access_token>>

\* db.add(new_user); db.commit(): the row is inserted
RegisterCommit(p) ==
  /\ pc[p] = "registering"
  /\ UsersByEmail(user_data[p].Email) = {}
  /\ users' = users \cup
       {User(nextUserID, user_data[p].Email, user_data[p].Password)}
  /\ nextUserID' = nextUserID + 1
  /\ pc' = [pc EXCEPT ![p] = "idle"]
  /\ user_data' = [user_data EXCEPT ![p] = [Email |-> None, Password |-> None]]
  /\ IF Serializes(User(nextUserID, user_data[p].Email,
                          user_data[p].Password), UserRead)
     THEN Answer("register_user", nextUserID, 201, "created", {nextUserID},
                 NoToken, NoTempToken)
     ELSE Answer("register_user", nextUserID, 500, "Internal Server Error",
                 {}, NoToken, NoTempToken)
  /\ UNCHANGED <<env, now, access_token>>

\* db.commit() hits the unique index on Users.Email: the IntegrityError is
\* not caught by the handler, the framework answers 500
RegisterIntegrityError(p) ==
  /\ pc[p] = "registering"
  /\ UsersByEmail(user_data[p].Email) # {}
  /\ nextUserID' = nextUserID + 1
  /\ pc' = [pc EXCEPT ![p] = "idle"]
  /\ user_data' = [user_data EXCEPT ![p] = [Email |-> None, Password |-> None]]
  /\ Answer("register_user", NoRow, 500, "Internal Server Error", {},
            NoToken, NoTempToken)
  /\ UNCHANGED <<users, env, now, access_token>>

register_user(p) ==
  \/ RegisterReceive(p)
  \/ RegisterDuplicate(p)
  \/ RegisterCheck(p)
  \/ RegisterCommit(p)
  \/ RegisterIntegrityError(p)

\* POST /users/token
login_for_access_token(p) ==
  \E username \in Emails, password \in Passwords :
    /\ pc[p] = "idle"
    /\ IF \E user \in UsersByEmail(username) :
            verify_password(password, user.HashedPassword)
       THEN LET user == CHOOSE u \in UsersByEmail(username) : TRUE IN
              /\ access_token' = create_access_token(user.Email)
              /\ Answer("login_for_access_token", user.UserID, 200, "ok",
                        {}, NoToken, NoTempToken)
       ELSE /\ access_token' = access_token
            /\ Answer("login_for_access_token", NoRow, 401,
                      "Incorrect username or password", {}, NoToken, NoTempToken)
    /\ UNCHANGED <<users, nextUserID, user_data, env, now, pc>>

\* what dependencies.get_current_user makes of a bearer token: the User
\* row, or no row for credentials_exception
CurrentUser(t) ==
  LET decoded_jwt == jwt_decode(t, SECRET_KEY, {ALGORITHM}) IN
    IF decoded_jwt.JWTError \/ decoded_jwt.sub = None THEN {}
    ELSE UsersByEmail(decoded_jwt.sub)

\* a request to an endpoint that depends on get_current_user
get_current_user(p) ==
  \E t \in TokenInputs \cup ({access_token} \ {NoToken}) :
    /\ pc[p] = "idle"
    /\ IF CurrentUser(t) = {}
       THEN Answer("get_current_user", NoRow, 401,
                   "Could not validate credentials", {}, t, NoTempToken)
       ELSE Answer("get_current_user",
                   (CHOOSE u \in CurrentUser(t) : TRUE).UserID, 200, "ok",
                   {u.UserID : u \in CurrentUser(t)}, t, NoTempToken)
    /\ UNCHANGED <<users, nextUserID, user_data, env, now, access_token, pc>>

\* datetime.utcnow() moves on
Tick ==
  /\ now < MaxClock
  /\ now' = now + 1
  /\ Quiet
  /\ UNCHANGED <<users, nextUserID, user_data, env, access_token, pc>>

\* the temp_token strings a caller may send, as sequences of characters
TempTokens ==
  {<<>>, <<"1">>, <<"2">>, <<"7">>, <<"t">>, <<"t", "-">>,
   <<"t", "-", "1">>, <<"t", "-", "2">>, <<"1", "-", "t">>, <<"0", "2">>}

Digits == <<"0", "1", "2", "3", "4", "5", "6", "7", "8", "9">>

\* s.split("-")[-1]: what follows the last "-"
RECURSIVE LastPart(_)
LastPart(s) ==
  IF \A k \in DOMAIN s : s[k] # "-" THEN s
  ELSE LastPart(Tail(s))

IsNumber(s) ==
  /\ s # <<>>
  /\ \A k \in DOMAIN s : \E d \in DOMAIN Digits : Digits[d] = s[k]

\* int(s) of a string of decimal digits
RECURSIVE int(_)
int(s) ==
  IF s = <<>> THEN 0
  ELSE 10 * int(SubSeq(s, 1, Len(s) - 1))
         + (CHOOSE d \in DOMAIN Digits : Digits[d] = s[Len(s)]) - 1

\* GET /users/me?temp_token=...
read_users_me(p) ==
  \E t \in TempTokens :
    /\ pc[p] = "idle"
    /\ IF ~IsNumber(LastPart(t))
       THEN Answer("read_users_me", NoRow, 401, "Invalid token format", {},
                   NoToken, t)
       ELSE LET user_id == int(LastPart(t))
                found == {u \in users : u.UserID = user_id}
            IN IF found = {}
               THEN Answer("read_users_me", NoRow, 404, "User not found",
                           {}, NoToken, t)
               ELSE IF \A u \in found : Serializes(u, UserRead)
               THEN Answer("read_users_me", user_id, 200, "ok",
                           {u.UserID : u \in found}, NoToken, t)
               ELSE Answer("read_users_me", user_id, 500,
                           "Internal Server Error", {}, NoToken, t)
    /\ UNCHANGED <<users, nextUserID, user_data, env, now, access_token, pc>>

\* ---------------------------------------------------------------- catalogue
\* models.Airport, models.Flight: the columns search_flights filters on
Airport(id, code) == [AirportID |-> id, IATACode |-> code]

Flight(id, departure, arrival, day) ==
  [FlightID |-> id, DepartureAirportID |-> departure,
   ArrivalAirportID |-> arrival, DepartureDate |-> day]

\* seed_db.py: JFK, LHR, DXB and the flight JFK -> LHR
SeedAirports == {Airport(1, "JFK"), Airport(2, "LHR"), Airport(3, "DXB")}

SeedFlights == {Flight(1, 1, 2, 1)}

Days == 1..NumDays

\* no search was just answered
NoQuery == [origin_code |-> None, destination_code |-> None, travel_date |-> 0]

\* the query strings of GET /flights: absent, empty, or a code in either
\* case; travel_date absent (0) or a date
CodeInputs == {None, "", "JFK", "lhr", "DXB"}

QueryInputs ==
  [origin_code : CodeInputs, destination_code : CodeInputs,
   travel_date : {0} \cup Days]

\* Python truth of an Optional[str]
Truthy(x) == x # None /\ x # ""

\* the IATACode of the Airport row joined on id
IATACode(id) == (CHOOSE a \in airports : a.AirportID = id).IATACode

\* search_flights: the flights that pass every filter that was supplied
search_flights_query(q) ==
  {f \in flights :
     /\ Truthy(q.origin_code) =>
          /\ \E a \in airports : a.AirportID = f.DepartureAirportID
          /\ IATACode(f.DepartureAirportID) = Upper(q.origin_code)
     /\ Truthy(q.destination_code) =>
          /\ \E a \in airports : a.AirportID = f.ArrivalAirportID
          /\ IATACode(f.ArrivalAirportID) = Upper(q.destination_code)
     /\ q.travel_date # 0 => f.DepartureDate = q.travel_date}

\* a catalogue request is answered; it touches neither the booking flow nor
\* the accounts
Reply(handler, u, code, text, rows, q) ==
  /\ response' = Resp(handler, u, code, text)
  /\ returned' = rows
  /\ query' = q
  /\ UNCHANGED <<reservations, pc, accounts>>

\* GET /flights
search_flights(p) ==
  \E q \in QueryInputs :
    /\ pc[p] = "idle"
    /\ Reply("search_flights", NoRow, 200, "ok",
             {f.FlightID : f \in search_flights_query(q)}, q)
    /\ UNCHANGED <<flights, airports>>

\* dependencies.get_admin_user on the row get_current_user resolved
get_admin_user(user) ==
  IF "IsAdmin" \notin DOMAIN user THEN "AttributeError"
  ELSE IF ~user.IsAdmin THEN "403"
  ELSE "ok"

\* the answer to a request that get_admin_user turned down: 403, or 500
\* for the exception the dependency raised
Denied(handler, user) ==
  IF get_admin_user(user) = "403"
  THEN Reply(handler, user.UserID, 403, "You do not have admin privileges",
             {}, NoQuery)
  ELSE Reply(handler, user.UserID, 500, "Internal Server Error", {}, NoQuery)

\* GET /airports
get_airports(p) ==
  \E user \in users :
    /\ pc[p] = "idle"
    /\ IF get_admin_user(user) = "ok"
       THEN Reply("get_airports", user.UserID, 200, "ok",
                  {a.AirportID : a \in airports}, NoQuery)
       ELSE Denied("get_airports", user)
    /\ UNCHANGED <<flights, airports>>

\* POST /flights: the Flight row (its FlightInventory rows are left out: the
\* inventory of the model has a fixed set of rows)
create_flight(p) ==
  \E user \in users :
  \E departure, arrival \in {a.AirportID : a \in airports}, day \in Days :
    /\ pc[p] = "idle"
    /\ IF get_admin_user(user) = "ok"
       THEN LET id == Cardinality(flights) + 1 IN
              /\ flights' = flights \cup {Flight(id, departure, arrival, day)}
              /\ Reply("create_flight", user.UserID, 200, "ok", {id}, NoQuery)
       ELSE /\ flights' = flights
            /\ Denied("create_flight", user)
    /\ airports' = airports

\* PUT /flights/{flight_id}
update_flight(p) ==
  \E user \in users :
  \E flight_id \in 1..(Cardinality(flights) + 1), day \in Days :
    /\ pc[p] = "idle"
    /\ IF get_admin_user(user) # "ok"
       THEN /\ flights' = flights
            /\ Denied("update_flight", user)
       ELSE IF \A f \in flights : f.FlightID # flight_id
       THEN /\ flights' = flights
            /\ Reply("update_flight", user.UserID, 404, "Flight not found",
                     {}, NoQuery)
       ELSE /\ flights' = {IF f.FlightID = flight_id
                            THEN [f EXCEPT !.DepartureDate = day] ELSE f
                            : f \in flights}
            /\ Reply("update_flight", user.UserID, 200, "ok", {flight_id},
                     NoQuery)
    /\ airports' = airports

\* the seeded users, catalogue and a complete environment; nobody has
\* logged in
Deployed ==
  /\ users = {User(u, EmailOrder[u], "pw1") : u \in Users}
  /\ nextUserID = NumUsers + 1
  /\ user_data = [p \in Procs |-> [Email |-> None, Password |-> None]]
  /\ env = [SECRET_KEY |-> "k1", HS256 |-> "HS256"]
  /\ now = 0
  /\ access_token = NoToken
  /\ token = NoToken
  /\ temp_token = NoTempToken
  /\ flights = SeedFlights
  /\ airports = SeedAirports
  /\ query = NoQuery

\* ---------------------------------------------------------------- system
IdleWorkers ==
  /\ lock = [i \in InvIDs |-> NoProc]
  /\ pc = [p \in Procs |-> "idle"]
  /\ current_user = [p \in Procs |-> NoRow]
  /\ booking_in = [p \in Procs |-> <<>>]
  /\ pnr = [p \in Procs |-> ""]
  /\ inventory_item = [p \in Procs |-> NoItem]
  /\ booking = [p \in Procs |-> NoRow]
  /\ response = NoResponse
  /\ returned = {}

\* the seeded inventory, no booking yet, every worker idle
Init ==
  /\ inventory = [i \in InvIDs |-> FlightInventory(i, SeedTotalSeats(i))]
  /\ bookings = {}
  /\ passengers = {}
  /\ nextBookingID = 1
  /\ IdleWorkers
  /\ Deployed

create_booking(p) ==
  \/ CreateBookingReceive(p)
  \/ CreateBookingMixed(p)
  \/ CreateBookingEmpty(p)
  \/ CreateBookingNoInventory(p)
  \/ CreateBookingLock(p)
  \/ CreateBookingNoSeats(p)
  \/ CreateBookingFlush(p)
  \/ CreateBookingPnrCollision(p)
  \/ CreateBookingCommit(p)
  \/ CreateBookingPassportCollision(p)
  \/ CreateBookingCommitError(p)

cancel_booking(p) ==
  \/ CancelBookingReceive(p)
  \/ CancelBookingNotFound(p)
  \/ CancelBookingAlready(p)
  \/ CancelBookingFetch(p)
  \/ CancelBookingLock(p)
  \/ CancelBookingCommit(p)
  \/ CancelBookingCommitError(p)

Next ==
  \E p \in Procs :
    \/ create_booking(p)
    \/ cancel_booking(p)
    \/ get_my_bookings(p)
    \/ get_booking_by_pnr(p)

Spec == Init /\ [][Next]_vars

\* ---------------------------------------------------------------- accounts alone
\* an empty Users table in any environment; the booking flow is at rest
InitAccounts ==
  /\ inventory = [i \in InvIDs |-> FlightInventory(i, SeedTotalSeats(i))]
  /\ bookings = {}
  /\ passengers = {}
  /\ nextBookingID = 1
  /\ IdleWorkers
  /\ users = {}
  /\ nextUserID = 1
  /\ user_data = [p \in Procs |-> [Email |-> None, Password |-> None]]
  /\ env \in Envs
  /\ now = 0
  /\ access_token = NoToken
  /\ token = NoToken
  /\ temp_token = NoTempToken
  /\ flights = SeedFlights
  /\ airports = SeedAirports
  /\ query = NoQuery

NextAccounts ==
  \/ \E p \in Procs :
       \/ register_user(p)
       \/ login_for_access_token(p)
       \/ get_current_user(p)
       \/ read_users_me(p)
  \/ Tick

SpecAccounts == InitAccounts /\ [][NextAccounts]_vars

\* ---------------------------------------------------------------- catalogue alone
\* two flights, the second on any route and day, each with one class of
\* seats of which any number is booked; the seeded users
InitCatalogue ==
  \E departure, arrival \in {a.AirportID : a \in SeedAirports}, day \in Days :
  \E seats \in [InvIDs -> 0..MaxTotalSeats] :
    /\ departure # arrival
    /\ \A i \in InvIDs : seats[i] <= SeedTotalSeats(i)
    /\ inventory = [i \in InvIDs |->
         [FlightInventory(i, SeedTotalSeats(i)) EXCEPT
            !.FlightID = ((i - 1) % 2) + 1, !.SeatsBooked = seats[i]]]
    /\ flights = SeedFlights \cup {Flight(2, departure, arrival, day)}
    /\ airports = SeedAirports
    /\ query = NoQuery
    /\ bookings = {}
    /\ passengers = {}
    /\ nextBookingID = 1
    /\ IdleWorkers
    /\ users = {User(u, EmailOrder[u], "pw1") : u \in Users}
    /\ nextUserID = NumUsers + 1
    /\ user_data = [p \in Procs |-> [Email |-> None, Password |-> None]]
    /\ env = [SECRET_KEY |-> "k1", HS256 |-> "HS256"]
    /\ now = 0
    /\ access_token = NoToken
    /\ token = NoToken
    /\ temp_token = NoTempToken

NextCatalogue ==
  \E p \in Procs :
    \/ search_flights(p)
    \/ get_airports(p)
    \/ create_flight(p)
    \/ update_flight(p)

SpecCatalogue == InitCatalogue /\ [][NextCatalogue]_vars

\* ---------------------------------------------------------------- races
\* a request body of n passengers, all of class i
SameClass(i, n) == [k \in 1..n |-> [InventoryID |-> i]]

\* the seeded inventory with the first row holding `total` seats, `seats`
\* of them booked
Seeded(total, seats) ==
  [i \in InvIDs |->
     IF i = 1
     THEN [FlightInventory(1, total) EXCEPT !.SeatsBooked = seats]
     ELSE FlightInventory(i, SeedTotalSeats(i))]

\* workers 1 and 2 have received requests r1 and r2; the others are idle
TwoRequests(r1, r2) ==
  LET req(p) == IF p = 1 THEN r1
                ELSE IF p = 2 THEN r2
                ELSE [pc |-> "idle", user |-> NoRow, body |-> <<>>, pnr |-> ""]
  IN /\ lock = [i \in InvIDs |-> NoProc]
     /\ pc = [p \in Procs |-> req(p).pc]
     /\ current_user = [p \in Procs |-> req(p).user]
     /\ booking_in = [p \in Procs |-> req(p).body]
     /\ pnr = [p \in Procs |-> req(p).pnr]
     /\ inventory_item = [p \in Procs |-> NoItem]
     /\ booking = [p \in Procs |-> NoRow]
     /\ response = NoResponse
     /\ returned = {}
     /\ Deployed

CreateRequest(u, i, n) ==
  [pc |-> "create_booking", user |-> u, body |-> SameClass(i, n), pnr |-> ""]

CancelRequest(u, code) ==
  [pc |-> "cancel_booking", user |-> u, body |-> <<>>, pnr |-> code]

\* Two create_booking requests for row 1, received together, each of which
\* fits the free seats alone but not both; no booking exists yet.
InitBookingRace ==
  \E total \in MaxTotalSeats..(MaxTotalSeats + 1) :
  \E n1, n2 \in 1..MaxPassengers :
  \E u1, u2 \in Users :
    /\ n1 <= total /\ n2 <= total /\ n1 + n2 > total
    /\ inventory = Seeded(total, 0)
    /\ bookings = {}
    /\ passengers = {}
    /\ nextBookingID = 1
    /\ TwoRequests(CreateRequest(u1, 1, n1), CreateRequest(u2, 1, n2))

\* the steps of create_booking on valid input when the database does not fail
CreateBookingSteps(p) ==
  \/ CreateBookingLock(p)
  \/ CreateBookingNoSeats(p)
  \/ CreateBookingFlush(p)
  \/ CreateBookingCommit(p)

NextBookingRace == \E p \in Procs : CreateBookingSteps(p)

SpecBookingRace == InitBookingRace /\ [][NextBookingRace]_vars

\* A Confirmed booking of user u0 with k passengers sits on row 1; worker 1
\* has received a create_booking for n passengers on row 1 and worker 2 the
\* owner's cancel_booking of that booking.
InitCancelRace ==
  \E total \in MaxTotalSeats..(MaxTotalSeats + 1) :
  \E k, n \in 1..MaxPassengers :
  \E u, u0 \in Users :
  \E code \in {c \in PnrInputs : Upper(c) = PnrOrder[1]} :
    /\ k <= total
    /\ inventory = Seeded(total, k)
    /\ bookings = {[BookingID |-> 1, PNR |-> PnrOrder[1], UserID |-> u0,
                     FlightID |-> 1, TotalAmount |-> 100 * k,
                     BookingStatus |-> "Confirmed",
                     PaymentStatus |-> "Pending", txn |-> NoProc]}
    /\ passengers = {[BookingID |-> 1, InventoryID |-> 1,
                       PassportNumber |-> j,
                       SeatNumber |-> gen_seat_label(j - 1)] : j \in 1..k}
    /\ nextBookingID = 2
    /\ TwoRequests(CreateRequest(u, 1, n), CancelRequest(u0, code))

\* the steps of cancel_booking when the database does not fail
CancelBookingSteps(p) ==
  \/ CancelBookingFetch(p)
  \/ CancelBookingLock(p)
  \/ CancelBookingCommit(p)

NextCancelRace ==
  \E p \in Procs : CreateBookingSteps(p) \/ CancelBookingSteps(p)

SpecCancelRace == InitCancelRace /\ [][NextCancelRace]_vars

\* After two bookings of one passenger each on row 1 (seats of index 0 and
\* 1): worker 1 has received a create_booking for one passenger on row 1 and
\* worker 2 the cancel_booking of the first booking by its owner.
InitSeatLabels ==
  \E total \in MaxTotalSeats..(MaxTotalSeats + 1) :
  \E u, u0, u1 \in Users :
  \E code \in {c \in PnrInputs : Upper(c) = PnrOrder[1]} :
    /\ inventory = Seeded(total, 2)
    /\ bookings = {[BookingID |-> j, PNR |-> PnrOrder[j],
                     UserID |-> IF j = 1 THEN u0 ELSE u1,
                     FlightID |-> 1, TotalAmount |-> 100,
                     BookingStatus |-> "Confirmed",
                     PaymentStatus |-> "Pending", txn |-> NoProc]
                    : j \in 1..2}
    /\ passengers = {[BookingID |-> j, InventoryID |-> 1,
                       PassportNumber |-> j,
                       SeatNumber |-> gen_seat_label(j - 1)] : j \in 1..2}
    /\ nextBookingID = 3
    /\ TwoRequests(CreateRequest(u, 1, 1), CancelRequest(u0, code))

SpecSeatLabels == InitSeatLabels /\ [][NextCancelRace]_vars

\* Two requests in flight, each a create_booking with any body or a
\* cancel_booking of any PNR by any user, over a booking of user 1 with k
\* passengers on row 1 that is Confirmed or already Cancelled; no further
\* request arrives.
InitProgress ==
  \E k \in 1..MaxPassengers :
  \E status \in {"Confirmed", "Cancelled"} :
  \E r1, r2 \in
       {[pc |-> "create_booking", user |-> 1, body |-> body, pnr |-> ""]
          : body \in BookingInputs}
       \cup {CancelRequest(u, code) : u \in Users, code \in PnrInputs} :
    /\ k <= MaxTotalSeats
    /\ inventory = Seeded(MaxTotalSeats,
                          IF status = "Confirmed" THEN k ELSE 0)
    /\ bookings = {[BookingID |-> 1, PNR |-> PnrOrder[1], UserID |-> 1,
                     FlightID |-> 1, TotalAmount |-> 100 * k,
                     BookingStatus |-> status,
                     PaymentStatus |-> "Pending", txn |-> NoProc]}
    /\ passengers = {[BookingID |-> 1, InventoryID |-> 1,
                       PassportNumber |-> j,
                       SeatNumber |-> gen_seat_label(j - 1)] : j \in 1..k}
    /\ nextBookingID = 2
    /\ TwoRequests(r1, r2)

\* every step of a request already received
RequestSteps(p) ==
  \/ CreateBookingMixed(p)
  \/ CreateBookingEmpty(p)
  \/ CreateBookingNoInventory(p)
  \/ CreateBookingLock(p)
  \/ CreateBookingNoSeats(p)
  \/ CreateBookingFlush(p)
  \/ CreateBookingPnrCollision(p)
  \/ CreateBookingCommit(p)
  \/ CreateBookingPassportCollision(p)
  \/ CreateBookingCommitError(p)
  \/ CancelBookingNotFound(p)
  \/ CancelBookingAlready(p)
  \/ CancelBookingFetch(p)
  \/ CancelBookingLock(p)
  \/ CancelBookingCommit(p)
  \/ CancelBookingCommitError(p)

NextProgress == \E p \in Procs : RequestSteps(p)

\* each worker thread keeps running: a request whose next step stays
\* possible takes it
SpecProgress ==
  /\ InitProgress
  /\ [][NextProgress]_vars
  /\ \A p \in Procs : WF_vars(RequestSteps(p))

\* ---------------------------------------------------------------- properties
\* passengers holding a seat of row i: those of committed, not cancelled
\* bookings
ActivePassengers(i) ==
  {q \in passengers : /\ q.InventoryID = i
                      /\ \E b \in Committed(bookings) :
                           /\ b.BookingID = q.BookingID
                           /\ b.BookingStatus # "Cancelled"}

AllIdle == \A p \in Procs : pc[p] = "idle"

\* C1: in every reachable state every FlightInventory row has
\* 0 <= SeatsBooked <= TotalSeats
C1_SeatsBookedInRange ==
  \A i \in InvIDs :
    /\ 0 <= inventory[i].SeatsBooked
    /\ inventory[i].SeatsBooked <= inventory[i].TotalSeats

\* C2: in every reachable state the passengers of not cancelled bookings on
\* a FlightInventory row are at most the row's TotalSeats
C2_NoOverselling ==
  \A i \in InvIDs :
    Cardinality(ActivePassengers(i)) <= inventory[i].TotalSeats

\* C3: two concurrent create_booking requests for one row that together ask
\* for more seats than are free: the request that ends with the capacity
\* error (400) ends after the other one committed, a request that commits is
\* the only one to commit, and once both have ended exactly one booking is
\* committed, the last response is the capacity error and SeatsBooked is the
\* passenger count of the committed booking
C3_ExactlyOneBooks ==
  /\ response.status \in {0, 200, 400}
  /\ response.status = 400 =>
       /\ response.detail = "seats left"
       /\ Cardinality(Committed(bookings)) = 1
  /\ response.status = 200 => Cardinality(Committed(bookings)) = 1
  /\ AllIdle =>
       /\ response.status = 400
       /\ \E b \in bookings :
            /\ bookings = {b}
            /\ b.txn = NoProc
            /\ inventory[1].SeatsBooked = Cardinality(PassengersOf(b.BookingID))
            /\ passengers = PassengersOf(b.BookingID)

\* the example of the claim: 3 seats, two requests of 2, both ended
C3_Witness ==
  /\ AllIdle
  /\ inventory[1].TotalSeats = 3
  /\ inventory[1].SeatsBooked = 2
  /\ response.status = 400
  /\ Cardinality(Committed(bookings)) = 1

\* the row a booking's passengers sit on
RowOf(id) == (CHOOSE q \in passengers : q.BookingID = id).InventoryID

\* the committed values of the tables
Tables == <<inventory, Committed(bookings), passengers>>

\* C4: a cancel_booking that commits takes exactly the booking's passenger
\* count off SeatsBooked of the booking's row and leaves the booking
\* Cancelled; a cancel_booking that reads a booking of the caller that is
\* already Cancelled answers 400 and changes no row
C4_CancelOnce ==
  [][\A p \in Procs :
       /\ (pc[p] = "cancel_committing" /\ pc'[p] = "idle"
             /\ response'.status = 200) =>
            /\ inventory'[RowOf(booking[p])].SeatsBooked =
                 inventory[RowOf(booking[p])].SeatsBooked
                   - Cardinality(PassengersOf(booking[p]))
            /\ \A i \in InvIDs \ {RowOf(booking[p])} :
                 inventory'[i] = inventory[i]
            /\ \E b \in Committed(bookings') :
                 b.BookingID = booking[p] /\ b.BookingStatus = "Cancelled"
       /\ (pc[p] = "cancel_booking" /\ pc'[p] # "cancel_booking"
             /\ \E b \in Committed(bookings) :
                  /\ b.PNR = Upper(pnr[p])
                  /\ b.UserID = current_user[p]
                  /\ b.BookingStatus = "Cancelled") =>
            /\ response' = Resp("cancel_booking", current_user[p], 400,
                                "already cancelled")
            /\ Tables' = Tables
  ]_vars

\* the second cancellation of a booking was refused after the first gave
\* its seats back
C4_Witness ==
  /\ response.handler = "cancel_booking"
  /\ response.detail = "already cancelled"
  /\ \E b \in Committed(bookings) :
       /\ b.BookingStatus = "Cancelled"
       /\ b.UserID = response.user
       /\ Cardinality(PassengersOf(b.BookingID)) = 2
       /\ inventory[RowOf(b.BookingID)].SeatsBooked = 0

\* C5: a create_booking and a cancel_booking racing on one row: when both
\* have committed, SeatsBooked is the initial value plus the new booking's
\* passengers minus the cancelled booking's passengers
C5_NoLostUpdate ==
  (/\ AllIdle
   /\ \E b \in Committed(bookings) :
        b.BookingID = 1 /\ b.BookingStatus = "Cancelled"
   /\ \E b \in Committed(bookings) : b.BookingID = 2)
  => inventory[1].SeatsBooked =
       Cardinality(PassengersOf(1)) + Cardinality(PassengersOf(2))
         - Cardinality(PassengersOf(1))

\* both committed, and the new booking was admitted only thanks to the seats
\* the cancellation gave back
C5_Witness ==
  /\ AllIdle
  /\ \E b \in Committed(bookings) :
       b.BookingID = 1 /\ b.BookingStatus = "Cancelled"
  /\ \E b \in Committed(bookings) : b.BookingID = 2
  /\ Cardinality(PassengersOf(1)) + Cardinality(PassengersOf(2))
       > inventory[1].TotalSeats

\* committed Booking rows that were not there before the step
NewlyCommitted ==
  {b \in Committed(bookings') :
     \A c \in Committed(bookings) : c.BookingID # b.BookingID}

\* C6: create_booking is all or nothing.  A step that makes a Booking row
\* visible makes exactly its passengers (at least one, all on one row)
\* visible with it and adds their number to SeatsBooked of that row; a step
\* that makes no Booking row visible adds no Passenger row and raises no
\* SeatsBooked; a create_booking that ends in an error leaves the tables
\* unchanged and none of its rows behind; every visible Booking has
\* passengers and every flushed, not yet committed row belongs to a request
\* still running
C6_AllOrNothing ==
  [][/\ \A b \in NewlyCommitted :
          /\ NewlyCommitted = {b}
          /\ passengers' \ passengers = PassengersOf(b.BookingID)'
          /\ passengers \subseteq passengers'
          /\ \E i \in InvIDs :
               /\ PassengersOf(b.BookingID)' # {}
               /\ \A q \in PassengersOf(b.BookingID)' : q.InventoryID = i
               /\ inventory'[i].SeatsBooked =
                    inventory[i].SeatsBooked
                      + Cardinality(PassengersOf(b.BookingID)')
               /\ \A j \in InvIDs \ {i} : inventory'[j] = inventory[j]
     /\ NewlyCommitted = {} =>
          /\ passengers' = passengers
          /\ \A i \in InvIDs :
               inventory'[i].SeatsBooked <= inventory[i].SeatsBooked
     /\ \A p \in Procs :
          (pc[p] \in {"create_booking", "checking", "committing"}
             /\ pc'[p] = "idle" /\ response'.status # 200) =>
            /\ Tables' = Tables
            /\ \A b \in bookings' : b.txn # p
     /\ \A b \in Committed(bookings') : PassengersOf(b.BookingID)' # {}
     /\ \A b \in bookings' :
          b.txn # NoProc =>
            /\ pc'[b.txn] = "committing"
            /\ booking'[b.txn] = b.BookingID
  ]_vars

\* a request failed on a duplicate passport number after its Booking row
\* was flushed, and nothing of it is left
C6_Witness ==
  /\ response.status = 500
  /\ response.detail = "Booking failed: duplicate PassportNumber"
  /\ nextBookingID = 3
  /\ Cardinality(bookings) = 1
  /\ AllIdle

\* C7: a create_booking whose passengers name two or more different
\* InventoryIDs is answered 400 without taking a lock or reading a row, and
\* no Booking, Passenger or FlightInventory row changes
C7_MixedRejected ==
  [][\A p \in Procs :
       (/\ pc[p] = "create_booking"
        /\ pc'[p] # "create_booking"
        /\ \E k1, k2 \in DOMAIN booking_in[p] :
             booking_in[p][k1].InventoryID # booking_in[p][k2].InventoryID)
       => /\ response' = Resp("create_booking", current_user[p], 400,
                              "same flight/class")
          /\ pc'[p] = "idle"
          /\ inventory_item[p] = NoItem
          /\ \A i \in InvIDs : lock[i] # p
          /\ lock' = lock
          /\ bookings' = bookings
          /\ passengers' = passengers
          /\ inventory' = inventory
          /\ nextBookingID' = nextBookingID
  ]_vars

\* a mixed request was rejected while another request held a row lock
C7_Witness ==
  /\ response.status = 400
  /\ response.detail = "same flight/class"
  /\ \E i \in InvIDs : lock[i] # NoProc

\* C8: the capacity check of create_booking, made with the row lock held,
\* rejects with the capacity error exactly when the row's TotalSeats minus
\* SeatsBooked is less than the number of passengers; the rejection
\* creates no row and leaves SeatsBooked unchanged
C8_CapacityCheck ==
  [][\A p \in Procs :
       (pc[p] = "checking" /\ pc'[p] # "checking") =>
         LET i == inventory_item[p].InventoryID
             n == Len(booking_in[p])
             free == inventory[i].TotalSeats - inventory[i].SeatsBooked
         IN /\ lock[i] = p
            /\ (response' = Resp("create_booking", current_user[p], 400,
                                 "seats left")) <=> (free < n)
            /\ free < n =>
                 /\ bookings' = bookings
                 /\ passengers' = passengers
                 /\ inventory' = inventory
                 /\ pc'[p] = "idle"
            /\ free >= n => response'.status # 400
  ]_vars

\* a request was refused for lack of seats on a row that is not empty
C8_Witness ==
  /\ response.status = 400
  /\ response.detail = "seats left"
  /\ \E i \in InvIDs :
       /\ inventory[i].SeatsBooked > 0
       /\ inventory[i].SeatsBooked < inventory[i].TotalSeats

\* C9: a cancel_booking for a PNR under which the caller owns no booking is
\* answered 404 and changes no row; a booking's status changes only in a
\* step of a request of its owner; GET /bookings/me and GET /bookings/{pnr}
\* return only bookings of the caller
C9_OwnerOnly ==
  [][/\ \A p \in Procs :
          (/\ pc[p] = "cancel_booking"
           /\ pc'[p] # "cancel_booking"
           /\ ~\E b \in Committed(bookings) :
                 b.PNR = Upper(pnr[p]) /\ b.UserID = current_user[p])
          => /\ response' = Resp("cancel_booking", current_user[p], 404,
                                 "booking not found")
             /\ Tables' = Tables
             /\ lock' = lock
     /\ \A b \in bookings : \A c \in bookings' :
          (c.BookingID = b.BookingID
             /\ c.BookingStatus # b.BookingStatus) =>
            \E p \in Procs : /\ pc[p] = "cancel_committing"
                             /\ pc'[p] = "idle"
                             /\ current_user[p] = b.UserID
     /\ response'.handler \in {"get_my_bookings", "get_booking_by_pnr"} =>
          \A id \in returned' : \A b \in bookings' :
            b.BookingID = id => b.UserID = response'.user
  ]_vars

\* every PNR names a booking of somebody else, and the caller's
\* cancel_booking was answered 404
C9_Witness ==
  /\ response.handler = "cancel_booking"
  /\ response.status = 404
  /\ \A code \in PnrCodes : \E b \in Committed(bookings) :
       /\ b.PNR = code
       /\ b.UserID # response.user
       /\ b.BookingStatus = "Confirmed"

\* C10: a Booking row becomes visible Confirmed and Pending; no step
\* removes a Booking row or changes one otherwise than from Confirmed to
\* Cancelled, so a Cancelled booking stays Cancelled
C10_StatusMonotone ==
  [][/\ \A b \in NewlyCommitted :
          b.BookingStatus = "Confirmed" /\ b.PaymentStatus = "Pending"
     /\ \A b \in Committed(bookings) :
          \E c \in Committed(bookings') :
            /\ c.BookingID = b.BookingID
            /\ \/ c = b
               \/ /\ b.BookingStatus = "Confirmed"
                  /\ c = [b EXCEPT !.BookingStatus = "Cancelled"]
  ]_vars

\* a booking was cancelled and, in the same state, another cancellation of
\* it commits no change of status
C10_Witness ==
  /\ response.handler = "cancel_booking"
  /\ response.status = 200
  /\ \E b \in Committed(bookings) : b.BookingStatus = "Cancelled"
  /\ \E b \in Committed(bookings) :
       b.BookingStatus = "Confirmed" /\ b.PaymentStatus = "Pending"

\* Users.Email is unique: no two User rows share an Email
UniqueEmails ==
  \A u1, u2 \in users : u1.Email = u2.Email => u1 = u2

\* C11: no two User rows share an Email, and a register_user that ends
\* without inserting a row was refused as a duplicate, 400 "Email already
\* registered", also when the other registration of the e-mail committed
\* between this request's check and its insert
C11_EmailUnique ==
  [][/\ UniqueEmails'
     /\ \A p \in Procs :
          (/\ pc[p] \in {"register_user", "registering"}
           /\ pc'[p] = "idle"
           /\ users' = users)
          => /\ response'.status = 400
             /\ response'.detail = "Email already registered"
  ]_vars

\* what the claim expects of an answered get_current_user request: the
\* token of the latest login, not expired, resolves to its user and to no
\* other; an expired, forged, sub-less or unknown-user token gets 401
RoundTrip ==
  response.handler = "get_current_user" =>
    /\ (/\ token = access_token
        /\ token.exp >= now
        /\ UsersByEmail(token.sub) # {})
       => /\ response.status = 200
          /\ returned = {u.UserID : u \in UsersByEmail(token.sub)}
    /\ (\/ token.exp < now
        \/ token.key # users_SECRET_KEY
        \/ token.sub = None
        \/ UsersByEmail(token.sub) = {})
       => response.status = 401
    /\ response.status = 200 =>
         /\ returned = {u.UserID : u \in UsersByEmail(token.sub)}
         /\ Cardinality(returned) = 1

\* C12: the token login_for_access_token returned resolves, until it
\* expires, to the user it was issued for and to no other, and expired,
\* forged, sub-less and unknown-user tokens are answered 401, in every
\* environment
C12_TokenRoundTrip == RoundTrip

\* the round trip in the environments that define both SECRET_KEY and a
\* variable named HS256 holding "HS256"
RoundTripConfigured ==
  (env.SECRET_KEY # None /\ env.HS256 = "HS256") => RoundTrip

\* C15: GET /users/me identifies the caller through a signed, unexpired
\* token only: whenever the handler selects a User row for the caller, the
\* request carried a bearer token that get_current_user accepts and the
\* row is that of the token's user
C15_TokenOnly ==
  (response.handler = "read_users_me" /\ response.user # NoRow) =>
    /\ CurrentUser(token) # {}
    /\ \A u \in CurrentUser(token) : u.UserID = response.user

\* a step that answers an admin-only request of a user without the admin
\* flag
NonAdminAnswered ==
  /\ response'.handler \in {"create_flight", "update_flight", "get_airports"}
  /\ \E u \in users : /\ u.UserID = response'.user
                      /\ ~("IsAdmin" \in DOMAIN u /\ u.IsAdmin)

\* C13: an admin-only request of an authenticated user who is not an admin
\* is answered 403 and changes no Flight, FlightInventory or Airport row,
\* and every step that changes a Flight row answers a user with the admin
\* flag
C13_AdminOnly ==
  [][/\ NonAdminAnswered =>
          /\ response'.status = 403
          /\ flights' = flights
          /\ inventory' = inventory
          /\ airports' = airports
     /\ flights' # flights =>
          \E u \in users : /\ u.UserID = response'.user
                           /\ "IsAdmin" \in DOMAIN u
                           /\ u.IsAdmin
  ]_vars

\* the inventory rows of flight id
ClassesOf(id) == {i \in InvIDs : inventory[i].FlightID = id}

\* C14: every flight search_flights returns passes each supplied filter and
\* has a class with at least one free seat; a flight whose classes are all
\* full is not returned
C14_SearchAvailable ==
  response.handler = "search_flights" =>
    \A f \in flights :
      f.FlightID \in returned =>
        /\ Truthy(query.origin_code) =>
             IATACode(f.DepartureAirportID) = Upper(query.origin_code)
        /\ Truthy(query.destination_code) =>
             IATACode(f.ArrivalAirportID) = Upper(query.destination_code)
        /\ query.travel_date # 0 => f.DepartureDate = query.travel_date
        /\ \E i \in ClassesOf(f.FlightID) :
             inventory[i].TotalSeats - inventory[i].SeatsBooked >= 1

\* the filter half of C14: the flights returned are exactly those that
\* pass each supplied filter
SearchFilters ==
  response.handler = "search_flights" =>
    \A f \in flights :
      f.FlightID \in returned <=>
        /\ Truthy(query.origin_code) =>
             IATACode(f.DepartureAirportID) = Upper(query.origin_code)
        /\ Truthy(query.destination_code) =>
             IATACode(f.ArrivalAirportID) = Upper(query.destination_code)
        /\ query.travel_date # 0 => f.DepartureDate = query.travel_date

\* the row whose lock request p asks for next
Wanted(p) ==
  IF pc[p] = "create_booking"
  THEN {i \in InvIDs : /\ ~MixedClasses(booking_in[p])
                       /\ booking_in[p] # <<>>
                       /\ booking_in[p][1].InventoryID = i}
  ELSE IF pc[p] = "cancel_locking"
  THEN {q.InventoryID : q \in PassengersOf(booking[p])}
  ELSE {}

\* request p waits for a row lock that another session holds
Waits(p) == \E i \in Wanted(p) : lock[i] # NoProc /\ lock[i] # p

\* C16: under fair scheduling a request that waits for a row lock gets it,
\* every request ends with a response, and in no state is a request
\* unfinished while no request can take a step
C16_Progress ==
  /\ \A p \in Procs : Waits(p) ~> (\E i \in InvIDs : lock[i] = p)
  /\ \A p \in Procs : (pc[p] # "idle") ~> (pc[p] = "idle")
  /\ [](AllIdle \/ ENABLED NextProgress)

\* a request waits for the lock of a row another request holds
C16_Witness ==
  \E p \in Procs : /\ Waits(p)
                   /\ \E q \in Procs : pc[q] \in {"committing",
                                                  "cancel_committing"}

\* C17: the seats of a booking are released at most once: every
\* cancel_booking that commits and answers 200 finds, at its commit, the
\* booking still Confirmed in the database, so that of the requests for
\* one PNR at most one succeeds and SeatsBooked loses the passenger count
\* at most once
C17_ReleaseOnce ==
  [][\A p \in Procs :
       (/\ pc[p] = "cancel_committing"
        /\ pc'[p] = "idle"
        /\ response'.status = 200)
       => /\ \E b \in Committed(bookings) :
               /\ b.BookingID = booking[p]
               /\ b.BookingStatus = "Confirmed"
          /\ \A i \in InvIDs :
               inventory'[i].SeatsBooked
                 >= Cardinality(ActivePassengers(i)')
  ]_vars

\* C18: in every state, SeatsBooked of every FlightInventory row is the
\* number of Passenger rows on that row whose booking is Confirmed
C18_ExactAccounting ==
  \A i \in InvIDs :
    inventory[i].SeatsBooked = Cardinality(ActivePassengers(i))

\* C19: no two passengers of Confirmed bookings on the same FlightInventory
\* row hold the same SeatNumber
C19_SeatLabelsDistinct ==
  \A i \in InvIDs : \A q1, q2 \in ActivePassengers(i) :
    q1 # q2 => q1.SeatNumber # q2.SeatNumber

====
